---- MODULE Spec2Model ----
(***************************************************************************)
(* State-machine model of minishell (myshell.c): the statement loop of     *)
(* main, the command builder, the single-command and pipeline launchers,   *)
(* the spawned children and the SIGCHLD reaper.                            *)
(*                                                                         *)
(* Conventions.  C arrays are 0-based, TLA+ sequences are 1-based: token   *)
(* index i of the code is index i+1 here, "no pipe" is 0 (code: -1).  A    *)
(* char* that may be NULL is a sequence of length at most one (<<>> is     *)
(* NULL).  The shell is single-threaded: the SIGCHLD handler interrupts    *)
(* the main flow, which does not advance while the handler runs (hpc).     *)
(* signal() has BSD semantics with glibc: the handler stays installed,     *)
(* SIGCHLD is blocked while it runs, and an interrupted waitpid restarts.  *)
(***************************************************************************)
EXTENDS Integers, Sequences, FiniteSets, TLC

\* ------------------------------------------------------------------ bounds

\* Largest number of ';'-separated substrings of one input line.
MaxStmts == 2

\* Process identifiers the kernel hands out in one run; fork fails (EAGAIN)
\* once they are used up, and may fail at any time before.
MaxChildren == 2

\* Largest length of a text handed to tokenize_sb (one longer text, FullLine,
\* comes on top).
MaxLine == 5

\* ------------------------------------------------------- program constants

MAX_TOKENS == 256

MAX_ARGV == 128

\* ------------------------------------------------------------ environment

\* Directories that exist (chdir succeeds exactly on these).
Dirs == {"home", "d"}

\* getenv("HOME")
HOME == "home"

\* W_EXITCODE(code, 0): the raw wait status of a child that called exit(code).
W_EXITCODE(code) == (code % 256) * 256

\* Raw wait status of a child killed by signal sig (no core dump flag).
W_TERMSIG(sig) == sig % 128

\* A child killed by SIGSEGV (signal 11 on Linux).
W_SEGV == W_TERMSIG(11)

\* A child killed by SIGINT (signal 2).
W_SIGINT == W_TERMSIG(2)

\* Raw wait statuses a child of this model can end with.
RawStatuses == {W_EXITCODE(0), W_EXITCODE(1), W_EXITCODE(127), W_SEGV, W_SIGINT}

\* Values an uninitialised int (the local `status` that waitpid never wrote)
\* can hold: any int; a few representatives, one of them no raw status of
\* any child of the model.
Indeterminate == RawStatuses \cup {0 - 1}

\* ------------------------------------------------------------------ input

\* A statement with MAX_ARGV plain words: one more than argv can hold.
LongStmt == [i \in 1..MAX_ARGV |-> "w"]

\* Token sequences tokenize_sb hands to main for one ';'-separated substring
\* (<<>> stands for a substring of white space only, which main skips).
Stmts ==
    { <<>>,
      <<"w">>, <<"w", "&">>, <<"w", "<", "f", "<", "f">>,
      <<"exit">>, <<"exit", "w">>,
      <<"cd">>, <<"cd", "d">>, <<"cd", "nodir">>, <<"&">>,
      <<"w", "|", "w">>, <<"w", "|", "w", "&">>, <<"w", "&", "|", "w">>,
      <<"w", "|", "&">>,
      <<"|", "w">>, <<"w", "|">>,
      <<"w", "<">>, <<"w", ">">>, <<"w", ">", "|", "w">>, <<"w", "|", "w", ">">>,
      <<"w", ">", "f", "|", "w", "<", "f">>,
      LongStmt }

\* ---------------------------------------------------------- command model

\* memset(cmd, 0, sizeof(Command))
EmptyCommand == [argv |-> <<>>, infile |-> <<>>, outfile |-> <<>>, background |-> FALSE]

\* One round of the for loop of parse_command_from_tokens_sb at position i
\* of the range [start, end): rc is -1 when the round returns -1, msg the
\* message it writes to stderr, next the value of i after the round's ++i,
\* cmd the Command as built so far (on rc = -1 the strings already
\* duplicated into it stay allocated), dups the number of strdup calls of
\* the round (a second strdup into infile or outfile overwrites the pointer
\* to the first string).
ParseRound(toks, i, end, c) ==
    CASE toks[i] = "<" /\ i + 1 >= end ->
            [rc |-> 0 - 1, msg |-> "syntax error: expected filename after '<'",
             next |-> i, cmd |-> c, dups |-> 0]
      [] toks[i] = "<" /\ i + 1 < end ->
            [rc |-> 0, msg |-> "none", next |-> i + 2,
             cmd |-> [c EXCEPT !.infile = <<toks[i + 1]>>], dups |-> 1]
      [] toks[i] = ">" /\ i + 1 >= end ->
            [rc |-> 0 - 1, msg |-> "syntax error: expected filename after '>'",
             next |-> i, cmd |-> c, dups |-> 0]
      [] toks[i] = ">" /\ i + 1 < end ->
            [rc |-> 0, msg |-> "none", next |-> i + 2,
             cmd |-> [c EXCEPT !.outfile = <<toks[i + 1]>>], dups |-> 1]
      [] toks[i] = "&" ->
            [rc |-> 0, msg |-> "none", next |-> i + 1,
             cmd |-> [c EXCEPT !.background = TRUE], dups |-> 0]
      [] toks[i] \notin {"<", ">", "&"} /\ Len(c.argv) >= MAX_ARGV - 1 ->
            [rc |-> 0 - 1, msg |-> "too many args", next |-> i, cmd |-> c,
             dups |-> 0]
      [] OTHER ->
            [rc |-> 0, msg |-> "none", next |-> i + 1,
             cmd |-> [c EXCEPT !.argv = Append(@, toks[i])], dups |-> 1]

\* At most n rounds of the for loop from the state s of an earlier round: the
\* loop stops when a round returned -1 or i reached end; dups adds up the
\* strdup calls.  The rounds are run as two halves so that a long token
\* range needs no deep recursion.
RECURSIVE ParseRounds(_, _, _, _)
ParseRounds(toks, end, s, n) ==
    IF s.rc < 0 \/ s.next >= end \/ n = 0 THEN s
    ELSE IF n = 1
    THEN [ParseRound(toks, s.next, end, s.cmd) EXCEPT !.dups = s.dups + @]
    ELSE LET half == ParseRounds(toks, end, s, n \div 2)
         IN  ParseRounds(toks, end, half, n - (n \div 2))

\* The for loop over [start, end): at most end - start rounds.
ParseLoop(toks, start, end, c) ==
    ParseRounds(toks, end,
                [rc |-> 0, msg |-> "none", next |-> start, cmd |-> c, dups |-> 0],
                IF end > start THEN end - start ELSE 0)

\* parse_command_from_tokens_sb(tokens, start, end, &cmd), range [start, end).
parse_command_from_tokens_sb(toks, start, end) == ParseLoop(toks, start, end, EmptyCommand)

\* free_command_sb(c): the number of strings it frees, which are those the
\* Command points to.
free_command_sb(c) == Len(c.argv) + Len(c.infile) + Len(c.outfile)

\* The pipe detection loop of main: the first index holding "|", 0 if none.
PipeIndex(toks) ==
    IF \E i \in 1..Len(toks) : toks[i] = "|"
    THEN CHOOSE i \in 1..Len(toks) :
            toks[i] = "|" /\ \A j \in 1..(i - 1) : toks[j] # "|"
    ELSE 0

\* Mutant of MisplacedPipe: only a pipe token at the first position is misplaced.
MisplacedPipeFirst(pi, ntok) == pi = 1

\* pipe_index == 0 || pipe_index == ntok - 1, in 1-based indices.
MisplacedPipe(pi, ntok) == pi = 1 \/ pi = ntok

\* ------------------------------------------------------------------ state

VARIABLES
    pc,         \* position of the main flow (see the actions)
    hpc,        \* "none", or "loop": sigchld_handler is running
    sigchld,    \* a SIGCHLD is pending for the shell
    sub,        \* substrings of the current line strtok_r returned so far
    tokens,     \* tokens[] of the statement begun last (freed once it is done)
    kind,       \* "none", "single" or "pipe": which launcher the statement got
    cmd,        \* Command cmd of the single command path
    left,       \* Command left of the pipeline path
    right,      \* Command right of the pipeline path
    pid,        \* execute_single_sb: pid (0: not assigned)
    p1,         \* execute_pipe_sb: p1 (0: not assigned)
    p2,         \* execute_pipe_sb: p2 (0: not assigned)
    pipefd,     \* execute_pipe_sb: ends of its pipe that are open in the shell process
    ret,        \* value the launcher returned
    children,   \* the kernel's table of the shell's child processes
    cwd,        \* working directory of the shell process
    exitCause,  \* why the shell process ended ("none" while it runs)
    err,        \* last message the shell wrote to stderr for the current statement
    failed,     \* history: the shell reported an error for a statement of this line
    done,       \* history: statements of the current line fully processed
    spawned,    \* history: children forked for the current statement
    termStatus, \* history: raw status of each terminated child of the current statement
    reported,   \* history: pids printed by "[bg] ..." for the current statement
    fgStmt,     \* history: the statement last processed was launched in the foreground
    live,       \* strings strdup'ed for the Commands of the statement begun last
                \* and not freed
    on_sigint,  \* what a SIGINT does to the shell process: "handler" or "default"
    tok_pc,     \* tokenize_sb: "idle" (not called), "scan" or "done" (returned)
    tok_line,   \* tokenize_sb: the text at line, a sequence of characters
    tok_p,      \* tokenize_sb: position of p in it (1-based; Len + 1: at the NUL)
    tok_tokens, \* tokenize_sb: tokens[0 .. ntok-1], each a sequence of characters
    tok_spans   \* history: for each token the part of the text it was made from

\* Variables of main, of the launchers and of the kernel.
mainVars == <<pc, hpc, sigchld, sub, tokens, kind, cmd, left, right, pid, p1, p2,
              pipefd, ret, children, cwd, exitCause, err, failed, done, spawned,
              termStatus, reported, fgStmt, live, on_sigint>>

\* Variables of a call of tokenize_sb.
tokVars == <<tok_pc, tok_line, tok_p, tok_tokens, tok_spans>>

vars == <<mainVars, tokVars>>

\* Variables of the launchers and of the kernel, left alone by the statement loop.
launchVars == <<pid, p1, p2, pipefd, ret, children, sigchld, cwd>>

Pids == 1..MaxChildren

\* A process table slot no fork has filled yet.  ends: the pipe ends the
\* process holds open, each a pair <<pipe, "r" or "w">>; a pipe is named by
\* the pid of the left child of its pipeline.  cwd: the working directory
\* the process has up to its execvp (a program is followed no further),
\* sigint: what a SIGINT does to it, stdin and stdout: what
\* its standard input and output are ("tty": what the shell has, "pipe",
\* "file"; "none": no process), opened: the redirection files it has opened
\* ("in": infile, "out": outfile).
NoChild ==
    [state |-> "none", status |-> 0, reaps |-> 0, role |-> "none",
     argv |-> <<>>, infile |-> <<>>, outfile |-> <<>>, ends |-> {},
     cwd |-> "none", sigint |-> "none",
     stdin |-> "none", stdout |-> "none", opened |-> {}]

\* The empty function: no child of the statement has terminated yet.
NoStatus == [c \in {} |-> 0]

Running(ch, c) == ch[c].state \in {"setup", "prog"}

Zombie(ch, c) == ch[c].state = "zombie"

\* Terminated: a zombie, or already reclaimed.
Terminated(ch, c) == ch[c].state \in {"zombie", "reaped"}

\* The state after main installed its two handlers, before the first prompt.
MainInit ==
    /\ pc = "prompt"
    /\ hpc = "none"
    /\ sigchld = FALSE
    /\ sub = 0
    /\ tokens = <<>>
    /\ kind = "none"
    /\ cmd = EmptyCommand
    /\ left = EmptyCommand
    /\ right = EmptyCommand
    /\ pid = 0
    /\ p1 = 0
    /\ p2 = 0
    /\ pipefd = {}
    /\ ret = 0
    /\ children = [c \in Pids |-> NoChild]
    /\ cwd = "home"
    /\ exitCause = "none"
    /\ err = "none"
    /\ failed = FALSE
    /\ done = 0
    /\ spawned = {}
    /\ termStatus = NoStatus
    /\ reported = {}
    /\ fgStmt = FALSE
    /\ live = 0
    /\ on_sigint = "handler"

\* No call of tokenize_sb is followed.
TokIdle ==
    /\ tok_pc = "idle"
    /\ tok_line = <<>>
    /\ tok_p = 1
    /\ tok_tokens = <<>>
    /\ tok_spans = <<>>

Init == MainInit /\ TokIdle

\* The main flow runs: the shell is alive and no handler is interrupting it.
MainAt(l) == pc = l /\ hpc = "none"

\* ----------------------------------------------------------------- kernel

\* Mutant of Reapable: an entry that was reclaimed before is handed out again.
ReapableTwice(ch, c) == ch[c].state \in {"zombie", "reaped"}

\* waitpid can reclaim the status entry of child c: c is a zombie.  A child
\* that was reclaimed before is no child any more (ECHILD).
Reapable(ch, c) == ch[c].state = "zombie"

\* The process table after a successful waitpid on c: the kernel hands the
\* status out and discards the entry.
Reclaim(ch, c) == [ch EXCEPT ![c].state = "reaped", ![c].status = 0, ![c].reaps = @ + 1]

\* Process identifiers not handed out yet.
FreePids == {c \in Pids : children[c].state = "none"}

\* The pid a successful fork returns.
NewPid == CHOOSE c \in FreePids : \A d \in FreePids : c <= d

\* SIG_DFL: the default action of SIGINT ends the process.
SIG_DFL == "default"

\* The process table after a successful fork: the child is a copy of the
\* shell at its position inside the launcher (role), with a copy of the
\* fields of its Command that a child reads, of the pipe descriptors that
\* are open in the launcher and of the working directory.  The first
\* statement of every child, signal(SIGINT, SIG_DFL), is part of the step.
Forked(ch, c, role, command) ==
    [ch EXCEPT ![c] = [state |-> "setup", status |-> 0, reaps |-> 0, role |-> role,
                       argv |-> command.argv, infile |-> command.infile,
                       outfile |-> command.outfile,
                       ends |-> {<<IF role = "left" THEN c ELSE p1, e>> :
                                    e \in pipefd},
                       cwd |-> cwd, sigint |-> SIG_DFL,
                       stdin |-> "tty", stdout |-> "tty", opened |-> {}]]

\* Mutant of perror_continue: the message goes to stderr and the shell exits.
perror_exit(m) == [msg |-> m, exits |-> TRUE]

\* perror_continue(msg): the message goes to stderr and the caller goes on.
perror_continue(m) == [msg |-> m, exits |-> FALSE]

\* Mutant of IsBackgroundPipe: only the flag of the right Command is read.
IsBackgroundRight(l, r) == r.background

\* right->background || left->background
IsBackgroundPipe(l, r) == r.background \/ l.background

\* Mutant of sigchld_again: an if in place of the while, one child per signal.
sigchld_once(r) == FALSE

\* The condition of the while loop of sigchld_handler on waitpid's result r.
sigchld_again(r) == r > 0

\* ------------------------------------------------- main: the statement loop

\* What the body of the while (sub) loop does with the tokens t of one
\* substring, up to the call of a launcher: the path it takes, the message
\* it writes to stderr, the Commands it has built, and (live) how many of the
\* strings duplicated into Commands are allocated at that point.
Dispatch(t) ==
    LET pi == PipeIndex(t)
        l == parse_command_from_tokens_sb(t, 1, pi)
        r == parse_command_from_tokens_sb(t, pi + 1, Len(t) + 1)
        c == parse_command_from_tokens_sb(t, 1, Len(t) + 1)
        none == [path |-> "blank", msg |-> "none", cmd |-> EmptyCommand,
                 left |-> EmptyCommand, right |-> EmptyCommand, live |-> 0]
    IN  IF t = <<>> THEN none
        ELSE IF pi > 0 THEN
            IF MisplacedPipe(pi, Len(t))
            THEN [none EXCEPT !.path = "misplaced",
                              !.msg = "syntax error: misplaced pipe"]
            ELSE IF l.rc < 0
            THEN [none EXCEPT !.path = "fail_left", !.msg = l.msg,
                              !.live = l.dups]
            ELSE IF r.rc < 0
            THEN [none EXCEPT !.path = "fail_right", !.msg = r.msg,
                              !.live = l.dups - free_command_sb(l.cmd) + r.dups]
            ELSE [none EXCEPT !.path = "pipe", !.left = l.cmd, !.right = r.cmd,
                              !.live = l.dups + r.dups]
        ELSE IF c.rc < 0
        THEN [none EXCEPT !.path = "fail_single", !.msg = c.msg, !.live = c.dups]
        ELSE [none EXCEPT !.path = "single", !.cmd = c.cmd, !.live = c.dups]

\* Dispatch of every statement of the input alphabet.
Plan == [t \in Stmts |-> Dispatch(t)]

\* What every step that starts on the next substring sets.
BeginStmt ==
    /\ sub' = sub + 1
    /\ spawned' = {}
    /\ termStatus' = NoStatus
    /\ reported' = {}
    /\ UNCHANGED <<hpc, launchVars, exitCause>>

\* The statement is abandoned with message m: tokens (and a parsed left
\* Command) freed, strtok_r, continue.
AbandonStmt(t, m) ==
    /\ BeginStmt
    /\ tokens' = t
    /\ live' = Plan[t].live
    /\ pc' = "next_sub"
    /\ kind' = "none"
    /\ err' = m
    /\ failed' = TRUE
    /\ done' = done + 1
    /\ fgStmt' = FALSE
    /\ UNCHANGED <<cmd, left, right>>

\* fgets returns a line (a blank one, or one of ';' only, has no substring).
ReadLine ==
    /\ MainAt("prompt")
    /\ pc' = "next_sub"
    /\ UNCHANGED <<hpc, sub, tokens, kind, cmd, left, right, launchVars, exitCause,
                   err, failed, done, spawned, termStatus, reported, fgStmt, live>>
    /\ UNCHANGED <<tokVars, on_sigint>>

\* fgets returns NULL: break, return 0.
ReadEOF ==
    /\ MainAt("prompt")
    /\ pc' = "exited"
    /\ exitCause' = "eof"
    /\ UNCHANGED <<hpc, sub, tokens, kind, cmd, left, right, launchVars, err,
                   failed, done, spawned, termStatus, reported, fgStmt, live>>
    /\ UNCHANGED <<tokVars, on_sigint>>

\* strtok_r returns NULL: the line is finished (and with it the history of
\* the line and of its last statement; strings that were not freed stay
\* allocated for good, the model follows them no further).
LineEnd ==
    /\ MainAt("next_sub")
    /\ pc' = "prompt"
    /\ sub' = 0
    /\ done' = 0
    /\ err' = "none"
    /\ failed' = FALSE
    /\ spawned' = {}
    /\ termStatus' = NoStatus
    /\ reported' = {}
    /\ fgStmt' = FALSE
    /\ tokens' = <<>>
    /\ live' = 0
    /\ UNCHANGED <<hpc, kind, cmd, left, right, launchVars, exitCause>>
    /\ UNCHANGED <<tokVars, on_sigint>>

\* strtok_r returns one more substring of the line.
MoreInput == MainAt("next_sub") /\ sub < MaxStmts

\* The substring is white space only: nothing is tokenized.
SkipBlank ==
    /\ MoreInput
    /\ \E t \in Stmts : Plan[t].path = "blank" /\ tokens' = t
    /\ live' = 0
    /\ BeginStmt
    /\ done' = done + 1
    /\ fgStmt' = FALSE
    /\ UNCHANGED <<pc, kind, cmd, left, right, err, failed>>
    /\ UNCHANGED <<tokVars, on_sigint>>

\* A pipe token at the first or the last position.
SyntaxMisplacedPipe ==
    /\ MoreInput
    /\ \E t \in Stmts : Plan[t].path = "misplaced" /\ AbandonStmt(t, Plan[t].msg)
    /\ UNCHANGED <<tokVars, on_sigint>>

\* The left command of a pipeline does not parse.
ParseFailLeft ==
    /\ MoreInput
    /\ \E t \in Stmts : Plan[t].path = "fail_left" /\ AbandonStmt(t, Plan[t].msg)
    /\ UNCHANGED <<tokVars, on_sigint>>

\* The left command parses, the right one does not: left is freed.
ParseFailRight ==
    /\ MoreInput
    /\ \E t \in Stmts : Plan[t].path = "fail_right" /\ AbandonStmt(t, Plan[t].msg)
    /\ UNCHANGED <<tokVars, on_sigint>>

\* The single command does not parse.
ParseFailSingle ==
    /\ MoreInput
    /\ \E t \in Stmts : Plan[t].path = "fail_single" /\ AbandonStmt(t, Plan[t].msg)
    /\ UNCHANGED <<tokVars, on_sigint>>

\* Both sides of a pipeline parse: execute_pipe_sb(&left, &right) is called.
StartPipe ==
    /\ MoreInput
    /\ \E t \in Stmts :
        /\ Plan[t].path = "pipe"
        /\ tokens' = t
        /\ left' = Plan[t].left
        /\ right' = Plan[t].right
        /\ live' = Plan[t].live
    /\ BeginStmt
    /\ kind' = "pipe"
    /\ pc' = "pipe"
    /\ err' = "none"
    /\ UNCHANGED <<cmd, failed, done, fgStmt>>
    /\ UNCHANGED <<tokVars, on_sigint>>

\* The single command parses: execute_single_sb(&cmd) is called.
StartSingle ==
    /\ MoreInput
    /\ \E t \in Stmts :
        /\ Plan[t].path = "single"
        /\ tokens' = t
        /\ cmd' = Plan[t].cmd
        /\ live' = Plan[t].live
    /\ BeginStmt
    /\ kind' = "single"
    /\ pc' = "single"
    /\ err' = "none"
    /\ UNCHANGED <<left, right, failed, done, fgStmt>>
    /\ UNCHANGED <<tokVars, on_sigint>>

\* The launcher returned: the Commands and the tokens are freed, strtok_r.
\* The launcher's locals go out of scope (a descriptor still open in pipefd
\* stays open in the shell for good; the model follows it no further).
Return ==
    /\ MainAt("ret")
    /\ pc' = "next_sub"
    /\ kind' = "none"
    /\ cmd' = EmptyCommand
    /\ left' = EmptyCommand
    /\ right' = EmptyCommand
    /\ pid' = 0
    /\ p1' = 0
    /\ p2' = 0
    /\ pipefd' = {}
    /\ ret' = 0
    /\ done' = done + 1
    /\ termStatus' = NoStatus
    /\ reported' = {}
    /\ fgStmt' = \/ kind = "single" /\ ~cmd.background
                 \/ kind = "pipe" /\ ~IsBackgroundPipe(left, right)
    /\ live' = IF kind = "pipe"
               THEN live - free_command_sb(left) - free_command_sb(right)
               ELSE live - free_command_sb(cmd)
    /\ UNCHANGED <<hpc, sigchld, sub, tokens, children, cwd, exitCause, err, failed,
                   spawned>>
    /\ UNCHANGED <<tokVars, on_sigint>>

\* ------------------------------------------------------- execute_single_sb

\* Variables a launcher step leaves alone unless it says otherwise.
stmtVars == <<hpc, sub, tokens, kind, cmd, left, right, done, fgStmt, live>>

\* Mutant of Reported: the launcher returns rv without a message.
ReturnedSilently(e, rv) ==
    /\ err' = err
    /\ failed' = TRUE
    /\ pc' = "ret" /\ exitCause' = exitCause /\ ret' = rv

\* The launcher reported e and returns rv to the statement loop.
Reported(e, rv) ==
    /\ err' = e.msg
    /\ failed' = TRUE
    /\ IF e.exits
       THEN pc' = "exited" /\ exitCause' = "error" /\ ret' = ret
       ELSE pc' = "ret" /\ exitCause' = exitCause /\ ret' = rv

\* if (!cmd->argv[0]) return 0;
SingleEmpty ==
    /\ MainAt("single")
    /\ cmd.argv = <<>>
    /\ pc' = "ret"
    /\ ret' = 0
    /\ UNCHANGED <<stmtVars, pid, p1, p2, pipefd, children, sigchld, cwd, exitCause,
                   err, failed, spawned, termStatus, reported>>
    /\ UNCHANGED <<tokVars, on_sigint>>

\* Mutant of IsExit: exit is the builtin only when it has no argument.
IsExitAlone(c) == c.argv = <<"exit">>

\* argv[0] is "exit".
IsExit(c) == c.argv # <<>> /\ c.argv[1] = "exit"

\* argv[0] is "cd".
IsCd(c) == c.argv # <<>> /\ c.argv[1] = "cd"

\* The builtin exit: exit(0).
BuiltinExit ==
    /\ MainAt("single")
    /\ IsExit(cmd)
    /\ pc' = "exited"
    /\ exitCause' = "exit"
    /\ UNCHANGED <<stmtVars, launchVars, err, failed, spawned, termStatus,
                   reported>>
    /\ UNCHANGED <<tokVars, on_sigint>>

\* cmd->argv[1] ? cmd->argv[1] : getenv("HOME")
CdTarget(c) == IF Len(c.argv) >= 2 THEN c.argv[2] ELSE HOME

\* Mutant of chdir: a call that fails leaves the process in HOME.
chdir_home(dir, from) ==
    IF dir \in Dirs THEN [rc |-> 0, cwd |-> dir] ELSE [rc |-> 0 - 1, cwd |-> HOME]

\* chdir(dir) of a process whose working directory is from: the result and
\* the working directory after the call.
chdir(dir, from) ==
    IF dir \in Dirs THEN [rc |-> 0, cwd |-> dir] ELSE [rc |-> 0 - 1, cwd |-> from]

\* The builtin cd: if (chdir(dir) != 0) perror_continue("cd"); return 0.
BuiltinCd ==
    /\ MainAt("single")
    /\ IsCd(cmd)
    /\ LET r == chdir(CdTarget(cmd), cwd)
       IN  /\ cwd' = r.cwd
           /\ IF r.rc = 0
              THEN /\ pc' = "ret"
                   /\ ret' = 0
                   /\ UNCHANGED <<err, failed, exitCause>>
              ELSE Reported(perror_continue("cd"), 0)
    /\ UNCHANGED <<stmtVars, pid, p1, p2, pipefd, children, sigchld, spawned,
                   termStatus, reported>>
    /\ UNCHANGED <<tokVars, on_sigint>>

\* fork() fails: perror, return -1.
SingleForkFail ==
    /\ MainAt("single")
    /\ cmd.argv # <<>> /\ ~IsExit(cmd) /\ ~IsCd(cmd)
    /\ Reported(perror_continue("fork"), 0 - 1)
    /\ UNCHANGED <<stmtVars, pid, p1, p2, pipefd, children, sigchld, cwd, spawned,
                   termStatus, reported>>
    /\ UNCHANGED <<tokVars, on_sigint>>

\* fork() succeeds.  The parent either reports a background child and
\* returns 0, or goes on to waitpid(pid, &status, 0).
SingleFork ==
    /\ MainAt("single")
    /\ cmd.argv # <<>> /\ ~IsExit(cmd) /\ ~IsCd(cmd)
    /\ FreePids # {}
    /\ children' = Forked(children, NewPid, "single", cmd)
    /\ pid' = NewPid
    /\ spawned' = spawned \cup {NewPid}
    /\ IF cmd.background
       THEN /\ reported' = {NewPid}
            /\ ret' = 0
            /\ pc' = "ret"
       ELSE /\ reported' = reported
            /\ ret' = ret
            /\ pc' = "single_wait"
    /\ UNCHANGED <<stmtVars, p1, p2, pipefd, sigchld, cwd, exitCause, err,
                   failed, termStatus>>
    /\ UNCHANGED <<tokVars, on_sigint>>

\* waitpid(pid, &status, 0); return status.  The call blocks while the
\* child runs.  It reclaims a zombie and stores its status; when the child
\* was reclaimed before (by the handler) it fails with ECHILD and `status`
\* is returned as it was: uninitialised.
SingleWait ==
    /\ MainAt("single_wait")
    /\ \/ /\ Reapable(children, pid)
          /\ children' = Reclaim(children, pid)
          /\ ret' = children[pid].status
       \/ /\ children[pid].state = "reaped"
          /\ children' = children
          /\ \E v \in Indeterminate : ret' = v
    /\ pc' = "ret"
    /\ UNCHANGED <<stmtVars, pid, p1, p2, pipefd, sigchld, cwd, exitCause, err,
                   failed, spawned, termStatus, reported>>
    /\ UNCHANGED <<tokVars, on_sigint>>

\* --------------------------------------------------------- execute_pipe_sb

\* pipe(pipefd) fails: perror, return -1.
PipeFail ==
    /\ MainAt("pipe")
    /\ Reported(perror_continue("pipe"), 0 - 1)
    /\ UNCHANGED <<stmtVars, pid, p1, p2, pipefd, children, sigchld, cwd, spawned,
                   termStatus, reported>>
    /\ UNCHANGED <<tokVars, on_sigint>>

\* pipe(pipefd) succeeds: both ends are open in the shell.
PipeCreate ==
    /\ MainAt("pipe")
    /\ pipefd' = {"r", "w"}
    /\ pc' = "pipe_fork1"
    /\ UNCHANGED <<stmtVars, pid, p1, p2, ret, children, sigchld, cwd, exitCause,
                   err, failed, spawned, termStatus, reported>>
    /\ UNCHANGED <<tokVars, on_sigint>>

\* The first fork() fails: perror, return -1.
PipeFork1Fail ==
    /\ MainAt("pipe_fork1")
    /\ Reported(perror_continue("fork"), 0 - 1)
    /\ UNCHANGED <<stmtVars, pid, p1, p2, pipefd, children, sigchld, cwd, spawned,
                   termStatus, reported>>
    /\ UNCHANGED <<tokVars, on_sigint>>

\* The first fork() succeeds: the left child.
PipeFork1 ==
    /\ MainAt("pipe_fork1")
    /\ FreePids # {}
    /\ children' = Forked(children, NewPid, "left", left)
    /\ p1' = NewPid
    /\ spawned' = spawned \cup {NewPid}
    /\ pc' = "pipe_fork2"
    /\ UNCHANGED <<stmtVars, pid, p2, pipefd, ret, sigchld, cwd, exitCause, err,
                   failed, termStatus, reported>>
    /\ UNCHANGED <<tokVars, on_sigint>>

\* The second fork() fails: perror, return -1.
PipeFork2Fail ==
    /\ MainAt("pipe_fork2")
    /\ Reported(perror_continue("fork"), 0 - 1)
    /\ UNCHANGED <<stmtVars, pid, p1, p2, pipefd, children, sigchld, cwd, spawned,
                   termStatus, reported>>
    /\ UNCHANGED <<tokVars, on_sigint>>

\* The second fork() succeeds: the right child.
PipeFork2 ==
    /\ MainAt("pipe_fork2")
    /\ FreePids # {}
    /\ children' = Forked(children, NewPid, "right", right)
    /\ p2' = NewPid
    /\ spawned' = spawned \cup {NewPid}
    /\ pc' = "pipe_close"
    /\ UNCHANGED <<stmtVars, pid, p1, pipefd, ret, sigchld, cwd, exitCause, err,
                   failed, termStatus, reported>>
    /\ UNCHANGED <<tokVars, on_sigint>>

\* close(pipefd[0]); close(pipefd[1]); then the background test: either
\* both pids are printed and 0 is returned, or waitpid(p1, &status, 0).
PipeClose ==
    /\ MainAt("pipe_close")
    /\ pipefd' = {}
    /\ IF IsBackgroundPipe(left, right)
       THEN /\ reported' = {p1, p2}
            /\ ret' = 0
            /\ pc' = "ret"
       ELSE /\ reported' = reported
            /\ ret' = ret
            /\ pc' = "pipe_wait1"
    /\ UNCHANGED <<stmtVars, pid, p1, p2, children, sigchld, cwd, exitCause, err,
                   failed, spawned, termStatus>>
    /\ UNCHANGED <<tokVars, on_sigint>>

\* waitpid(p, &status, 0) of the pipeline: blocks while p runs, reclaims a
\* zombie, fails with ECHILD when p was reclaimed before.
PipeWaited(p) ==
    \/ /\ Reapable(children, p)
       /\ children' = Reclaim(children, p)
    \/ /\ children[p].state = "reaped"
       /\ children' = children

\* waitpid(p1, &status, 0)
PipeWait1 ==
    /\ MainAt("pipe_wait1")
    /\ PipeWaited(p1)
    /\ pc' = "pipe_wait2"
    /\ UNCHANGED <<stmtVars, pid, p1, p2, pipefd, ret, sigchld, cwd, exitCause,
                   err, failed, spawned, termStatus, reported>>
    /\ UNCHANGED <<tokVars, on_sigint>>

\* waitpid(p2, &status, 0); return 0.
PipeWait2 ==
    /\ MainAt("pipe_wait2")
    /\ PipeWaited(p2)
    /\ ret' = 0
    /\ pc' = "ret"
    /\ UNCHANGED <<stmtVars, pid, p1, p2, pipefd, sigchld, cwd, exitCause, err,
                   failed, spawned, termStatus, reported>>
    /\ UNCHANGED <<tokVars, on_sigint>>

\* --------------------------------------------------------------- children

\* What a child step leaves alone: everything of the shell process.
shellVars == <<pc, hpc, sub, tokens, kind, cmd, left, right, pid, p1, p2,
               pipefd, ret, cwd, exitCause, err, failed, done, spawned, reported,
               fgStmt, live>>

\* Mutant of FilesOpened: every child opens every file its Command names.
FilesOpenedAll(k) ==
    (IF k.infile # <<>> THEN {"in"} ELSE {})
    \cup (IF k.outfile # <<>> THEN {"out"} ELSE {})

\* The redirection files child k opens: infile in a single command or a left
\* child, outfile in a single command or a right child.
FilesOpened(k) ==
    (IF k.role \in {"single", "left"} /\ k.infile # <<>> THEN {"in"} ELSE {})
    \cup (IF k.role \in {"single", "right"} /\ k.outfile # <<>> THEN {"out"} ELSE {})

\* The child opens a redirection file.
OpensFile(k) == FilesOpened(k) # {}

\* Standard input of child k once its redirections are done: the read end
\* of the pipe in a right child, else the infile it opened, else the
\* shell's.
ChildStdin(k) ==
    IF k.role = "right" THEN "pipe"
    ELSE IF "in" \in FilesOpened(k) THEN "file" ELSE k.stdin

\* Standard output of child k once its redirections are done: the write end
\* of the pipe in a left child, else the outfile it opened, else the
\* shell's.
ChildStdout(k) ==
    IF k.role = "left" THEN "pipe"
    ELSE IF "out" \in FilesOpened(k) THEN "file" ELSE k.stdout

\* Mutant of SetupFailures: every failure of a child ends it with exit(1).
SetupFailuresExit1(k) == {W_EXITCODE(1)}

\* How a child can end before its program runs: exit(1) when an open fails,
\* exit(127) when execvp fails; execvp(NULL, argv) of an empty Command is
\* undefined: it fails (exit(127)) or the child is killed (SIGSEGV).
SetupFailures(k) ==
    (IF OpensFile(k) THEN {W_EXITCODE(1)} ELSE {})
    \cup {W_EXITCODE(127)}
    \cup (IF k.argv = <<>> THEN {W_SEGV} ELSE {})

\* The process table when child c terminates with raw status st (all its
\* descriptors are closed).
Exited(ch, c, st) ==
    [ch EXCEPT ![c] = [NoChild EXCEPT !.state = "zombie", !.status = st]]

\* The history of the current statement when child c terminates with st.
Noted(c, st) == IF c \in spawned THEN (c :> st) @@ termStatus ELSE termStatus

\* Mutant of PipeEndsKept: the right child does not close its copy of the
\* write end.
PipeEndsKeptOpen(k) ==
    IF k.role = "left" THEN {x \in k.ends : x[2] = "w"} ELSE k.ends

\* dup2(pipefd[1], STDOUT_FILENO) in the left child, dup2(pipefd[0],
\* STDIN_FILENO) in the right child, then close(pipefd[0]); close(pipefd[1]):
\* the pipe ends child k still holds open, as its standard output or input.
PipeEndsKept(k) ==
    {x \in k.ends : \/ k.role = "left" /\ x[2] = "w"
                    \/ k.role = "right" /\ x[2] = "r"}

\* The child gets through its redirections and execvp succeeds: the program
\* replaces the copy of the shell (and of the Command) in the child.
ChildExec(c) ==
    /\ pc # "exited"
    /\ children[c].state = "setup"
    /\ children[c].argv # <<>>
    /\ children' = [children EXCEPT ![c] = [NoChild EXCEPT !.state = "prog",
                                              !.ends = PipeEndsKept(children[c]),
                                              !.sigint = children[c].sigint,
                                              !.role = children[c].role,
                                              !.stdin = ChildStdin(children[c]),
                                              !.stdout = ChildStdout(children[c]),
                                              !.opened = FilesOpened(children[c])]]
    /\ UNCHANGED <<shellVars, sigchld, termStatus>>
    /\ UNCHANGED <<tokVars, on_sigint>>

\* The child ends before its program runs; the shell gets a SIGCHLD.
ChildSetupFail(c) ==
    /\ pc # "exited"
    /\ children[c].state = "setup"
    /\ \E st \in SetupFailures(children[c]) :
        /\ children' = Exited(children, c, st)
        /\ termStatus' = Noted(c, st)
    /\ sigchld' = TRUE
    /\ UNCHANGED shellVars
    /\ UNCHANGED <<tokVars, on_sigint>>

\* The program of the child terminates; the shell gets a SIGCHLD.
ChildExit(c) ==
    /\ pc # "exited"
    /\ children[c].state = "prog"
    /\ \E st \in {W_EXITCODE(0), W_EXITCODE(1)} :
        /\ children' = Exited(children, c, st)
        /\ termStatus' = Noted(c, st)
    /\ sigchld' = TRUE
    /\ UNCHANGED shellVars
    /\ UNCHANGED <<tokVars, on_sigint>>

\* -------------------------------------------------------- sigchld_handler

\* The kernel delivers the pending SIGCHLD: the handler interrupts the main
\* flow wherever it is (SIGCHLD stays blocked while the handler runs).
SigchldDeliver ==
    /\ pc # "exited"
    /\ hpc = "none"
    /\ sigchld
    /\ hpc' = "loop"
    /\ sigchld' = FALSE
    /\ UNCHANGED <<pc, sub, tokens, kind, cmd, left, right, pid, p1, p2,
                   pipefd, ret, children, cwd, exitCause, err, failed, done,
                   spawned, termStatus, reported, fgStmt, live>>
    /\ UNCHANGED <<tokVars, on_sigint>>

\* One round of while (waitpid(-1, NULL, WNOHANG) > 0): any zombie is
\* reclaimed and its pid returned; without a zombie the result is 0
\* (children are left) or -1 (none is).
SigchldHandler ==
    /\ hpc = "loop"
    /\ \/ \E c \in Pids :
            /\ Reapable(children, c)
            /\ children' = Reclaim(children, c)
            /\ hpc' = IF sigchld_again(c) THEN "loop" ELSE "none"
       \/ /\ ~\E c \in Pids : Reapable(children, c)
          /\ children' = children
          /\ LET r == IF \E c \in Pids : Running(children, c) THEN 0 ELSE 0 - 1
             IN  hpc' = IF sigchld_again(r) THEN "loop" ELSE "none"
    /\ UNCHANGED <<pc, sigchld, sub, tokens, kind, cmd, left, right, pid, p1,
                   p2, pipefd, ret, cwd, exitCause, err, failed, done, spawned,
                   termStatus, reported, fgStmt, live>>
    /\ UNCHANGED <<tokVars, on_sigint>>

\* ----------------------------------------------------------------- SIGINT

\* Mutant of SigintKept: signal() with System V semantics, the disposition
\* is back at the default once the handler is called.
SigintReset(d) == SIG_DFL

\* signal(SIGINT, sigint_handler) of glibc (BSD semantics): the handler
\* stays installed when it is called, and an interrupted system call of the
\* main flow (fgets, waitpid) is restarted.
SigintKept(d) == d

\* The children a SIGINT ends for sure: those still running the code of the
\* shell, where SIGINT has its default action.
SigintEnds ==
    {c \in Pids : children[c].state = "setup" /\ children[c].sigint = SIG_DFL}

\* The children a SIGINT may end: those above and those that run a program
\* (which may catch or ignore the signal).
SigintMayEnd ==
    {c \in Pids : Running(children, c) /\ children[c].sigint = SIG_DFL}

\* Ctrl-C at the terminal: SIGINT goes to every process of the foreground
\* process group, which the shell and all its children are in (no setpgid).
\* In the shell sigint_handler prints a prompt and returns, or the default
\* action ends the shell; the children of K are killed.
Sigint ==
    /\ pc # "exited"
    /\ IF on_sigint = "handler"
       THEN /\ on_sigint' = SigintKept(on_sigint)
            /\ UNCHANGED <<pc, exitCause>>
       ELSE /\ pc' = "exited"
            /\ exitCause' = "sigint"
            /\ on_sigint' = on_sigint
    /\ \E K \in SUBSET SigintMayEnd :
        /\ SigintEnds \subseteq K
        /\ children' = [c \in Pids |->
                            IF c \in K
                            THEN [NoChild EXCEPT !.state = "zombie",
                                                 !.status = W_SIGINT]
                            ELSE children[c]]
        /\ termStatus' = [c \in (K \cap spawned) |-> W_SIGINT] @@ termStatus
        /\ sigchld' = (sigchld \/ K # {})
    /\ UNCHANGED <<hpc, sub, tokens, kind, cmd, left, right, pid, p1, p2, pipefd,
                   ret, cwd, err, failed, done, spawned, reported, fgStmt, live>>
    /\ UNCHANGED tokVars

\* ------------------------------------------------------------ tokenize_sb

\* Characters of the texts the tokenizer is run on: a letter, white space,
\* two of the symbols, both quotes and the backslash.
Chars == {"a", " ", "<", "|", "&", "\"", "'", "\\"}

\* *p == ' ' || *p == '\t' || *p == '\n'
IsSpace(ch) == ch \in {" ", "\t", "\n"}

\* *p == '>' || *p == '<' || *p == '|' || *p == '&'
IsSymbol(ch) == ch \in {">", "<", "|", "&"}

\* *p == '"' || *p == '\''
IsQuote(ch) == ch \in {"\"", "'"}

\* A text of MAX_TOKENS + 1 symbols: one token more than tokens[] holds.
FullLine == [i \in 1..(MAX_TOKENS + 1) |-> "<"]

\* The texts main hands to tokenize_sb: subtrim, which trim_sb has stripped
\* of leading and trailing white space and which is not empty.
Lines ==
    {l \in UNION {[1..n -> Chars] : n \in 1..MaxLine} :
        ~IsSpace(l[1]) /\ ~IsSpace(l[Len(l)])} \cup {FullLine}

\* The least element of a non-empty set of integers.
Least(S) == CHOOSE x \in S : \A y \in S : x <= y

\* while (*p == ' ' || *p == '\t' || *p == '\n') p++; from position i: the
\* first position that holds no white space, Len(l) + 1 (the NUL) if none.
SkipSpace(l, i) == Least({j \in i..Len(l) : ~IsSpace(l[j])} \cup {Len(l) + 1})

\* Mutant of QuoteScan: a backslash does not keep the quote after it from
\* closing the token.
RECURSIVE QuoteScanNoEscape(_, _, _)
QuoteScanNoEscape(l, i, quote) ==
    IF i > Len(l) \/ l[i] = quote THEN i
    ELSE QuoteScanNoEscape(l, i + 1, quote)

\* The while loop of the quoted branch from position i: where p stops, at
\* the closing quote or at the NUL.  Inside double quotes a backslash that
\* is not the last character takes p over the character after it.
RECURSIVE QuoteScan(_, _, _)
QuoteScan(l, i, quote) ==
    IF i > Len(l) \/ l[i] = quote THEN i
    ELSE IF l[i] = "\\" /\ quote = "\"" /\ i + 1 <= Len(l)
         THEN QuoteScan(l, i + 2, quote)
         ELSE QuoteScan(l, i + 1, quote)

\* Mutant of WordStop: a symbol does not end a word.
WordStopAtSpace(ch) == IsSpace(ch)

\* The characters that end a word: white space and the symbols.
WordStop(ch) == IsSpace(ch) \/ IsSymbol(ch)

\* The while loop of the word branch from position i: where p stops.
WordScan(l, i) == Least({j \in i..Len(l) : WordStop(l[j])} \cup {Len(l) + 1})

\* Mutant of QuotedToken: the token keeps the quotes it came from.
QuotedTokenInQuotes(l, from, to, quote) == <<quote>> \o SubSeq(l, from, to) \o <<quote>>

\* strncpy(tok, start, len): the token of the quoted branch is the text
\* between the quotes as it stands.
QuotedToken(l, from, to, quote) == SubSeq(l, from, to)

\* Where p stands once the white space at the head of the loop is skipped.
TokHead == SkipSpace(tok_line, tok_p)

\* The loop of tokenize_sb is at its head with room in tokens[], and a
\* character is left after the white space: the first one of the next token.
TokAt ==
    /\ tok_pc = "scan"
    /\ Len(tok_tokens) < MAX_TOKENS
    /\ TokHead <= Len(tok_line)

\* The round adds token t, made of the text from position at up to (not
\* including) position next, where p stands after the round.
TokAdd(t, at, next, k) ==
    /\ tok_tokens' = Append(tok_tokens, t)
    /\ tok_p' = next
    /\ tok_spans' = Append(tok_spans, [from |-> at, to |-> next, kind |-> k])
    /\ UNCHANGED <<tok_pc, tok_line>>
    /\ UNCHANGED mainVars

\* The quoted branch: a token from the character after the quote up to the
\* closing quote or the end of the text; p moves past a closing quote.
TokQuoted ==
    /\ TokAt
    /\ IsQuote(tok_line[TokHead])
    /\ LET at == TokHead
           quote == tok_line[at]
           stop == QuoteScan(tok_line, at + 1, quote)
       IN  TokAdd(QuotedToken(tok_line, at + 1, stop - 1, quote), at,
                  IF stop <= Len(tok_line) THEN stop + 1 ELSE stop,
                  IF quote = "'" THEN "single" ELSE "double")

\* The symbol branch: a token of the one character.
TokSymbol ==
    /\ TokAt
    /\ ~IsQuote(tok_line[TokHead])
    /\ IsSymbol(tok_line[TokHead])
    /\ TokAdd(<<tok_line[TokHead]>>, TokHead, TokHead + 1, "symbol")

\* The word branch: a token of the characters up to the next white space
\* or symbol.
TokWord ==
    /\ TokAt
    /\ ~IsQuote(tok_line[TokHead])
    /\ ~IsSymbol(tok_line[TokHead])
    /\ LET stop == WordScan(tok_line, TokHead)
       IN  TokAdd(SubSeq(tok_line, TokHead, stop - 1), TokHead, stop, "word")

\* The loop ends, return ntok: tokens[] is full, or only white space is
\* left of the text.
TokReturn ==
    /\ tok_pc = "scan"
    /\ \/ /\ Len(tok_tokens) >= MAX_TOKENS
          /\ tok_p' = tok_p
       \/ /\ Len(tok_tokens) < MAX_TOKENS
          /\ TokHead > Len(tok_line)
          /\ tok_p' = TokHead
    /\ tok_pc' = "done"
    /\ UNCHANGED <<tok_line, tok_tokens, tok_spans>>
    /\ UNCHANGED mainVars

\* malloc returns NULL for the next token: "malloc failed", exit(1).
TokNoMemory ==
    /\ TokAt
    /\ tok_pc' = "exit"
    /\ UNCHANGED <<tok_line, tok_p, tok_tokens, tok_spans>>
    /\ UNCHANGED mainVars

\* ----------------------------------------------------------- specification

Next ==
    \/ ReadLine
    \/ ReadEOF
    \/ LineEnd
    \/ SkipBlank
    \/ SyntaxMisplacedPipe
    \/ ParseFailLeft
    \/ ParseFailRight
    \/ ParseFailSingle
    \/ StartPipe
    \/ StartSingle
    \/ Return
    \/ SingleEmpty
    \/ BuiltinExit
    \/ BuiltinCd
    \/ SingleForkFail
    \/ SingleFork
    \/ SingleWait
    \/ PipeFail
    \/ PipeCreate
    \/ PipeFork1Fail
    \/ PipeFork1
    \/ PipeFork2Fail
    \/ PipeFork2
    \/ PipeClose
    \/ PipeWait1
    \/ PipeWait2
    \/ \E c \in Pids : ChildExec(c)
    \/ \E c \in Pids : ChildSetupFail(c)
    \/ \E c \in Pids : ChildExit(c)
    \/ SigchldDeliver
    \/ SigchldHandler
    \/ Sigint

Spec == Init /\ [][Next]_vars

\* The kernel delivers a pending signal and the handler, once entered, runs
\* to its end.
FairSpec == Spec /\ WF_vars(SigchldDeliver) /\ WF_vars(SigchldHandler)

\* tokenize_sb on its own, run on each of the texts.
TokInit ==
    /\ MainInit
    /\ tok_pc = "scan"
    /\ tok_line \in Lines
    /\ tok_p = 1
    /\ tok_tokens = <<>>
    /\ tok_spans = <<>>

TokNext ==
    \/ TokQuoted
    \/ TokSymbol
    \/ TokWord
    \/ TokReturn
    \/ TokNoMemory

TokSpec == TokInit /\ [][TokNext]_vars

\* Moreover the scheduler runs the shell when the pipeline launcher is at its
\* close calls, and every child up to its execvp or its early exit.
SchedSpec ==
    /\ FairSpec
    /\ WF_vars(PipeClose)
    /\ \A c \in Pids : WF_vars(ChildExec(c) \/ ChildSetupFail(c))

\* ------------------------------------------------------------- properties

\* The statement at a launcher is a foreground one: no Command of it has
\* the background flag.
ForegroundStmt ==
    \/ kind = "single" /\ ~cmd.background
    \/ kind = "pipe" /\ ~left.background /\ ~right.background

\* The statement at a launcher is a background one.
BackgroundStmt ==
    \/ kind = "single" /\ cmd.background
    \/ kind = "pipe" /\ (left.background \/ right.background)

\* Children of the current statement that have not terminated.
Unfinished == {c \in spawned : ~Terminated(children, c)}

\* C1: when the single-command launcher returns from a foreground command
\* whose child it forked, the value it returns is the raw status that child
\* terminated with.
C1_ReturnsChildStatus ==
    (pc = "ret" /\ kind = "single" /\ ~cmd.background /\ pid # 0)
        => (pid \in DOMAIN termStatus /\ ret = termStatus[pid])

C3_ReturnsAfterTermination ==
    (pc = "ret" /\ ForegroundStmt) => Unfinished = {}

\* C4: a background launch is never at a blocking wait, and when it has
\* forked all its children and returned, it has returned 0 and reported the
\* pid of each of them.
C4_BackgroundNeverWaits ==
    /\ pc \in {"single_wait", "pipe_wait1", "pipe_wait2"} => ~BackgroundStmt
    /\ (pc = "ret" /\ BackgroundStmt /\ (pid # 0 \/ p2 # 0))
            => (ret = 0 /\ reported = spawned /\ reported = {pid, p1, p2} \ {0})

\* C4, witness: a pipeline whose left command alone carries the flag has
\* returned, both pids reported, while both children still run.
C4_ReturnedWhileRunning ==
    /\ pc = "ret"
    /\ kind = "pipe"
    /\ left.background /\ ~right.background
    /\ reported = {p1, p2}
    /\ Running(children, p1) /\ Running(children, p2)

\* C5: every child that terminated while the shell runs is eventually
\* reclaimed, none stays a zombie for good (or the shell has ended).
C5_ZombiesReclaimed ==
    \A c \in Pids :
        Zombie(children, c) ~> (children[c].state = "reaped" \/ pc = "exited")

\* C5, witness: two children are zombies at once while one handler
\* invocation is under way.
C5_TwoZombiesOneHandler ==
    /\ hpc = "loop"
    /\ ~sigchld
    /\ Cardinality({c \in Pids : Zombie(children, c)}) >= 2

\* C6: when the statement loop is about to take the next substring of the
\* line, every substring before it has been fully processed, and if the
\* last one was a foreground launch its children have terminated.
C6_StrictlySequential ==
    (MoreInput /\ sub >= 1)
        => (done = sub /\ (fgStmt => Unfinished = {}))

\* Messages main writes for a statement it does not execute.
SyntaxMessages ==
    { "syntax error: misplaced pipe",
      "syntax error: expected filename after '<'",
      "syntax error: expected filename after '>'",
      "too many args" }

\* C7: the shell ends only by the exit builtin or at end of input, and
\* after a statement that failed the statement loop is back at the point
\* where it takes the next substring, able to launch a command or a pipeline.
C7_FailuresAreRecoverable ==
    /\ exitCause \in {"none", "exit", "eof"}
    /\ pc = "exited" <=> exitCause # "none"
    /\ pc = "next_sub" => done = sub
    /\ (err # "none" /\ pc # "exited") => pc \in {"ret", "next_sub"}
    /\ (failed /\ MoreInput) => (ENABLED StartSingle /\ ENABLED StartPipe)

\* C7, witness: after a statement of the line failed, a later statement of
\* the same line has been launched and has a child.
C7_LaterStatementRuns ==
    /\ failed
    /\ err = "none"
    /\ spawned # {}
    /\ pc \in {"single_wait", "pipe_close"}

\* The Command of a non-piped statement has "exit" as its first argument.
ExitStmt == kind = "single" /\ cmd.argv # <<>> /\ cmd.argv[1] = "exit"

\* C8: a non-piped statement whose first argument is exit is either still
\* to be run by the launcher or has ended the shell; no child was forked
\* for it, and all statements before it on the line were processed.  The
\* shell never ends by exit in any other way.
C8_ExitEndsTheShell ==
    /\ ExitStmt => /\ pc \in {"single", "exited"}
                   /\ spawned = {}
                   /\ done = sub - 1
                   /\ pc = "exited" => exitCause = "exit"
    /\ exitCause = "exit" => (ExitStmt /\ pc = "exited")

\* C8, witness: the shell ended at an exit that is the second statement of
\* its line, the first one processed, exit having an argument.
C8_ExitedAtSecondStatement ==
    /\ pc = "exited"
    /\ exitCause = "exit"
    /\ sub = 2
    /\ done = 1
    /\ Len(cmd.argv) = 2

\* Length of the longest run of redirection operators that ends at hi in
\* the token range lo..hi.
RedirRun(toks, lo, hi) ==
    LET stops == {k \in lo..hi : toks[k] \notin {"<", ">"}}
        last == IF stops = {} THEN lo - 1
                ELSE CHOOSE k \in stops : \A j \in stops : j <= k
    IN  hi - last

\* The token at k of the range lo.. is read as an operator (and not as the
\* filename of the operator before it).
ActiveRedir(toks, lo, k) == RedirRun(toks, lo, k) % 2 = 1

\* Tokens of the range lo..hi that are argument words.
ArgWords(toks, lo, hi) ==
    {k \in lo..hi : /\ toks[k] \notin {"<", ">", "&"}
                    /\ ~(k > lo /\ ActiveRedir(toks, lo, k - 1))}

\* The range lo..hi is no well-formed command: its last token is an
\* operator that lacks its filename, or it has more words than argv holds.
BadCommand(toks, lo, hi) ==
    \/ hi >= lo /\ ActiveRedir(toks, lo, hi)
    \/ Cardinality(ArgWords(toks, lo, hi)) >= MAX_ARGV

\* Position of the first pipe token (0: none).
FirstPipe(toks) ==
    LET pipes == {k \in 1..Len(toks) : toks[k] = "|"}
    IN  IF pipes = {} THEN 0 ELSE CHOOSE k \in pipes : \A j \in pipes : k <= j

\* The statement has a syntax error: a misplaced pipe, or a side of the
\* pipe (the whole statement, without a pipe) that is no well-formed command.
SyntaxError(toks) ==
    LET bar == FirstPipe(toks)
        n == Len(toks)
    IN  IF bar = 0 THEN BadCommand(toks, 1, n)
        ELSE \/ bar = 1
             \/ bar = n
             \/ BadCommand(toks, 1, bar - 1)
             \/ BadCommand(toks, bar + 1, n)

\* The statements of the input alphabet that have a syntax error.
Malformed == {t \in Stmts : SyntaxError(t)}

\* C9: the step that takes a statement with a syntax error from the line
\* also finishes it: a syntax message is written, and no launcher is
\* entered, no child forked, no builtin run (the shell lives on in the same
\* directory).
C9_SyntaxErrorRunsNothing ==
    [][ (sub' = sub + 1 /\ tokens' \in Malformed)
            => /\ pc' = "next_sub"
               /\ kind' = "none"
               /\ err' \in SyntaxMessages
               /\ spawned' = {}
               /\ children' = children
               /\ cwd' = cwd
               /\ exitCause' = exitCause
               /\ done' = sub' ]_vars

\* C9, witness: a pipeline whose left command is well-formed and whose
\* right command is not was abandoned, and nothing was forked for it.
C9_RightSideRejected ==
    /\ pc = "next_sub"
    /\ tokens \in Malformed
    /\ FirstPipe(tokens) > 1
    /\ FirstPipe(tokens) < Len(tokens)
    /\ ~BadCommand(tokens, 1, FirstPipe(tokens) - 1)
    /\ BadCommand(tokens, FirstPipe(tokens) + 1, Len(tokens))
    /\ err \in SyntaxMessages
    /\ spawned = {}

\* The write end of pipe id is open in some process: in the shell, whose
\* launcher made the pipe and has not closed it, or in a child.
WriteEndOpen(id) ==
    \/ p1 = id /\ "w" \in pipefd
    \/ \E c \in Pids : <<id, "w">> \in children[c].ends

\* The right child of the pipeline whose left child is id has been spawned
\* and lives: a process other than id holds the read end of pipe id.
RightChildOf(id) ==
    {c \in Pids \ {id} : <<id, "r">> \in children[c].ends}

\* C11: when the left child of a pipeline has terminated and the right child
\* lives, eventually no process holds the write end of their pipe (the read
\* of the right child then returns end-of-input), unless the shell has ended
\* by then.
C11_WriteEndGetsClosed ==
    \A id \in Pids :
        (Terminated(children, id) /\ RightChildOf(id) # {})
            ~> (~WriteEndOpen(id) \/ pc = "exited")

\* C11, witness: the left child has terminated, the program of the right
\* child runs with the read end as its input, and the write end is open in
\* no process.
C11_EndOfInputReached ==
    \E id \in Pids :
        /\ Terminated(children, id)
        /\ \E c \in RightChildOf(id) : children[c].state = "prog"
        /\ ~WriteEndOpen(id)

\* The pipeline launcher has returned without a right child: pipe() or one
\* of the two fork() calls failed.
PipelineAborted == pc = "ret" /\ kind = "pipe" /\ p2 = 0

\* C12: an aborted pipeline attempt has been reported and has returned -1
\* with at most the left child spawned, and that child runs, or is a zombie
\* that the pending SIGCHLD or the running handler will reclaim, or has been
\* reclaimed.
C12_AbortLeavesLeftReapable ==
    PipelineAborted =>
        /\ ret = 0 - 1
        /\ err \in {"pipe", "fork"}
        /\ failed
        /\ spawned = {p1} \ {0}
        /\ \A c \in spawned :
            \/ Running(children, c)
            \/ Zombie(children, c) /\ (sigchld \/ hpc = "loop")
            \/ children[c].state = "reaped" /\ children[c].reaps = 1

\* C12, witness: after the second fork failed the left child ran to its end
\* and the handler reclaimed it.
C12_LeftChildReclaimed ==
    /\ PipelineAborted
    /\ p1 # 0
    /\ children[p1].state = "reaped"

\* Indices of the tokens made so far.
TokIds == 1..Len(tok_spans)

\* Token k came from the quoted branch.
FromQuote(k) == tok_spans[k].kind \in {"single", "double"}

\* Position i of the text lies in a quoted token, quotes included.
InQuotes(i) ==
    \E k \in TokIds : FromQuote(k) /\ tok_spans[k].from <= i /\ i < tok_spans[k].to

\* The tokens are made from parts of the text that follow one another.
InInputOrder ==
    /\ Len(tok_tokens) = Len(tok_spans)
    /\ \A k \in TokIds :
        /\ 1 <= tok_spans[k].from /\ tok_spans[k].from < tok_spans[k].to
        /\ tok_spans[k].to <= tok_p
        /\ k > 1 => tok_spans[k - 1].to <= tok_spans[k].from

\* C14: of the text scanned so far, every symbol outside the quoted tokens
\* is a token of its own, no word token holds a symbol, and the tokens follow
\* the order of the text.
C14_SymbolsStandAlone ==
    /\ InInputOrder
    /\ \A i \in 1..Len(tok_line) :
        (i < tok_p /\ IsSymbol(tok_line[i]) /\ ~InQuotes(i))
            => \E k \in TokIds :
                /\ tok_spans[k] = [from |-> i, to |-> i + 1, kind |-> "symbol"]
                /\ tok_tokens[k] = <<tok_line[i]>>
    /\ \A k \in TokIds :
        tok_spans[k].kind = "word"
            => \A j \in 1..Len(tok_tokens[k]) : ~IsSymbol(tok_tokens[k][j])

\* C14, witness: a<a has been split into a, <, a.
C14_SplitBetweenLetters ==
    /\ tok_pc = "done"
    /\ tok_line = <<"a", "<", "a">>
    /\ tok_tokens = << <<"a">>, <<"<">>, <<"a">> >>

\* Number of backslashes that stand right before position j, from lo on.
BackslashRun(l, lo, j) ==
    LET stops == {k \in lo..(j - 1) : l[k] # "\\"}
    IN  IF stops = {} THEN j - lo
        ELSE j - 1 - (CHOOSE k \in stops : \A x \in stops : x <= k)

\* The quote that closes the token opened by the quote at from (Len(l) + 1:
\* none): the first one after it that, inside double quotes, is not escaped
\* by a backslash.
ClosingQuote(l, from) ==
    Least({m \in (from + 1)..Len(l) :
              /\ l[m] = l[from]
              /\ ~(l[from] = "\"" /\ BackslashRun(l, from + 1, m) % 2 = 1)}
          \cup {Len(l) + 1})

\* The text between the quote at from and its closing quote (the end).
Quoted(l, from) == SubSeq(l, from + 1, ClosingQuote(l, from) - 1)

\* t with every backslash that has a character after it dropped, that
\* character kept.
RECURSIVE Unescaped(_)
Unescaped(t) ==
    IF t = <<>> THEN <<>>
    ELSE IF t[1] = "\\" /\ Len(t) >= 2
         THEN <<t[2]>> \o Unescaped(SubSeq(t, 3, Len(t)))
         ELSE <<t[1]>> \o Unescaped(Tail(t))

\* C15: a token from double quotes is the text between the quotes with the
\* backslash of every escape dropped, a token from single quotes is the text
\* between the quotes as it stands.
C15_EscapesDropped ==
    \A k \in TokIds :
        /\ tok_spans[k].kind = "double"
            => tok_tokens[k] = Unescaped(Quoted(tok_line, tok_spans[k].from))
        /\ tok_spans[k].kind = "single"
            => tok_tokens[k] = Quoted(tok_line, tok_spans[k].from)

\* C16: a token that starts at a quote is one token from the quoted branch:
\* it is the text up to the closing quote as it stands, or up to the end of
\* the text if no quote closes it, and the scan goes on after the closing
\* quote.
C16_QuotedTokenVerbatim ==
    /\ InInputOrder
    /\ \A k \in TokIds :
        LET from == tok_spans[k].from
            close == ClosingQuote(tok_line, from)
        IN  /\ FromQuote(k) <=> IsQuote(tok_line[from])
            /\ FromQuote(k) =>
                /\ tok_tokens[k] = Quoted(tok_line, from)
                /\ tok_spans[k].to =
                       IF close <= Len(tok_line) THEN close + 1 ELSE close
    /\ tok_pc = "done" =>
           (Len(tok_tokens) = MAX_TOKENS \/ tok_p = Len(tok_line) + 1)

\* C16, witness: a quote that nothing closes gave one token that holds white
\* space and a symbol, and the tokenizer returned.
C16_UnterminatedQuote ==
    /\ tok_pc = "done"
    /\ \E k \in TokIds :
        /\ FromQuote(k)
        /\ ClosingQuote(tok_line, tok_spans[k].from) = Len(tok_line) + 1
        /\ \E i, j \in 1..Len(tok_tokens[k]) :
            IsSpace(tok_tokens[k][i]) /\ IsSymbol(tok_tokens[k][j])

\* The main flow takes a step out of the builtin cd whose chdir fails.
CdFails ==
    /\ MainAt("single") /\ IsCd(cmd) /\ pc' # pc
    /\ CdTarget(cmd) \notin Dirs

\* C17: a cd whose chdir fails writes the message of cd, changes neither
\* the working directory nor the process table, and forks nothing; only a
\* cd whose chdir succeeds changes the working directory, and every child
\* forked starts in the working directory the shell has at that time.
C17_FailedCdChangesNothing ==
    [][/\ CdFails =>
            /\ err' = "cd" /\ failed' /\ pc' = "ret"
            /\ cwd' = cwd /\ children' = children /\ spawned' = spawned
       /\ cwd' # cwd =>
            /\ MainAt("single") /\ IsCd(cmd)
            /\ CdTarget(cmd) \in Dirs /\ cwd' = CdTarget(cmd)
       /\ \A c \in Pids :
            (children[c].state = "none" /\ children'[c].state # "none")
                => children'[c].cwd = cwd /\ cwd' = cwd]_vars

\* C17, witness: the shell had moved to directory d, the cd to a directory
\* that does not exist has returned with its message, and the shell is still
\* in d with no child forked.
C17_StillInPreviousDirectory ==
    /\ pc = "ret" /\ tokens = <<"cd", "nodir">>
    /\ err = "cd" /\ cwd = "d" /\ cwd # HOME
    /\ spawned = {}

\* WIFEXITED(st): the child ended by exit, not by a signal.
WIFEXITED(st) == st % 128 = 0

\* WEXITSTATUS(st)
WEXITSTATUS(st) == (st \div 256) % 256

\* Child c of a single command ends in this step before its program runs.
SingleChildFails(c) ==
    /\ children[c].state = "setup" /\ children[c].role = "single"
    /\ children'[c].state = "zombie"
    /\ WIFEXITED(children'[c].status)

\* C18: a child of a single command that ends before its program runs ends
\* with exit code 1 or 127, with 1 only if it had a file to open; the step
\* changes nothing of the shell process; and the waitpid of the parent on a
\* child that has terminated can return.
C18_ChildFailureStaysInChild ==
    /\ [][\A c \in Pids :
            SingleChildFails(c) =>
                /\ WEXITSTATUS(children'[c].status) \in {1, 127}
                /\ WEXITSTATUS(children'[c].status) = 1
                       => (children[c].infile # <<>> \/ children[c].outfile # <<>>)
                /\ UNCHANGED shellVars]_vars
    /\ []((MainAt("single_wait") /\ Terminated(children, pid))
             => ENABLED SingleWait)

\* C18, witness: the child of a foreground command ended with exit(127)
\* before its program ran, and the parent's waitpid has returned that status.
C18_WaitReturnedExecFailure ==
    /\ pc = "ret" /\ kind = "single"
    /\ pid \in DOMAIN termStatus
    /\ termStatus[pid] = W_EXITCODE(127)
    /\ children[pid].state = "reaped"
    /\ ret = W_EXITCODE(127)
    /\ exitCause = "none"

\* C19: no SIGINT ends the shell: its handler is installed whenever the
\* shell runs, and every child that runs has the default action for SIGINT.
C19_SigintSparesTheShell ==
    /\ exitCause # "sigint"
    /\ pc # "exited" => on_sigint = "handler"
    /\ \A c \in Pids : Running(children, c) => children[c].sigint = SIG_DFL

\* C19, witness: a SIGINT killed the child of a foreground command while
\* the shell was blocked in waitpid on it, and the shell is still there.
C19_InterruptedWhileWaiting ==
    /\ MainAt("single_wait")
    /\ pid \in DOMAIN termStatus
    /\ termStatus[pid] = W_SIGINT
    /\ Zombie(children, pid)
    /\ exitCause = "none"

\* C20: the program of a left child has the write end of the pipe of its
\* pipeline as standard output and has opened no outfile; the program of a
\* right child has the read end as standard input and has opened no infile.
C20_PipeBeatsRedirection ==
    \A c \in Pids :
        children[c].state = "prog" =>
            /\ children[c].role = "left" =>
                /\ children[c].stdout = "pipe"
                /\ children[c].ends = {<<c, "w">>}
                /\ "out" \notin children[c].opened
            /\ children[c].role = "right" =>
                /\ children[c].stdin = "pipe"
                /\ \E id \in Pids : children[c].ends = {<<id, "r">>}
                /\ "in" \notin children[c].opened

\* C20, witness: both programs of a pipeline run whose left command names an
\* outfile and whose right command names an infile.
C20_BothSidesRedirected ==
    /\ kind = "pipe" /\ left.outfile # <<>> /\ right.infile # <<>>
    /\ p1 # 0 /\ p2 # 0
    /\ children[p1].state = "prog" /\ children[p1].role = "left"
    /\ children[p2].state = "prog" /\ children[p2].role = "right"
    /\ children[p1].stdout = "pipe" /\ children[p2].stdin = "pipe"

\* What strcmp sees of a token: a text of one character is that character,
\* any other text is a word that equals no operator (and no builtin).
Text(t) == IF Len(t) = 1 THEN t[1] ELSE "w"

\* tokens[0 .. ntok-1] as main and parse_command_from_tokens_sb compare them.
Texts == [k \in 1..Len(tok_tokens) |-> Text(tok_tokens[k])]

\* Token k was made from a quoted section whose content is the operator op.
QuotedOperator(k, op) ==
    /\ FromQuote(k)
    /\ IsSymbol(op)
    /\ Quoted(tok_line, tok_spans[k].from) = <<op>>

\* The Commands main builds from the tokens t.
Built(t) == {Dispatch(t).cmd, Dispatch(t).left, Dispatch(t).right}

\* C21: when tokenize_sb has returned, a token from a quoted section whose
\* content is one operator is treated by its text as any token is: a | with
\* no | before it is the pipe separator of the statement; where the loop of
\* the command builder comes to a <, > or &, the round is that of the
\* redirection (it takes the next token as the file or reports that none
\* follows) or of the background flag and adds nothing to argv; and no
\* Command built has a <, > or & among its arguments.
C21_ClassByTextAlone ==
    tok_pc = "done" =>
        \A k \in TokIds : \A op \in {"<", ">", "|", "&"} :
            QuotedOperator(k, op) =>
                LET end == Len(Texts) + 1
                    r == ParseRound(Texts, k, end, EmptyCommand)
                IN  /\ Texts[k] = op
                    /\ (op = "|" /\ \A j \in 1..(k - 1) : Texts[j] # "|")
                          => /\ PipeIndex(Texts) = k
                             /\ Dispatch(Texts).path \notin {"blank", "single", "fail_single"}
                    /\ op = "&" => r.rc = 0 /\ r.cmd.background /\ r.cmd.argv = <<>>
                    /\ op = "<" =>
                           /\ r.cmd.argv = <<>>
                           /\ IF k + 1 < end
                              THEN r.rc = 0 /\ r.cmd.infile = <<Texts[k + 1]>>
                              ELSE r.rc < 0
                    /\ op = ">" =>
                           /\ r.cmd.argv = <<>>
                           /\ IF k + 1 < end
                              THEN r.rc = 0 /\ r.cmd.outfile = <<Texts[k + 1]>>
                              ELSE r.rc < 0
                    /\ \A c \in Built(Texts) : \A j \in 1..Len(c.argv) :
                           c.argv[j] \notin {"<", ">", "&"}

\* C21, witness: in &"|"a the quoted | was taken as the pipe separator: the
\* statement is a pipeline whose left side is the background flag alone and
\* whose right side is a.
C21_QuotedPipeSplits ==
    /\ tok_pc = "done"
    /\ Len(tok_tokens) = 3
    /\ QuotedOperator(2, "|")
    /\ PipeIndex(Texts) = 2
    /\ Dispatch(Texts).path = "pipe"
    /\ Dispatch(Texts).left.background
    /\ Dispatch(Texts).right.argv = <<"a">>

\* Child c comes to its execvp in this step: the program starts, or the
\* call fails (exit(127)) or kills the child.
ReachesExec(c) ==
    /\ children[c].state = "setup"
    /\ \/ children'[c].state = "prog"
       \/ /\ children'[c].state = "zombie"
          /\ children'[c].status \in {W_EXITCODE(127), W_SEGV}

\* C22: a child comes to its execvp only with an argument vector that is
\* not empty.
C22_NeverExecsEmptyCommand ==
    [][\A c \in Pids : ReachesExec(c) => children[c].argv # <<>>]_vars

\* C13: when the statement loop is back from a statement, every string that
\* was duplicated into a Command of that statement has been freed.
C13_CommandStringsReleased ==
    pc = "next_sub" => live = 0

\* C10: when the pipeline launcher has returned, neither end of the pipe it
\* created is open in the shell.
C10_PipeClosedOnReturn ==
    (pc = "ret" /\ kind = "pipe") => pipefd = {}

====
